---- MODULE Spec2Model ----
(***************************************************************************)
(* A model of src/main.py: the BIST 100 / S&P 500 real-return comparison.  *)
(*                                                                         *)
(* Numbers are binary floating-point values with round-to-nearest-even,    *)
(* as Python's float and numpy's float64 are, with a significand of        *)
(* Precision bits instead of 53 and an unbounded exponent (no overflow,    *)
(* no subnormals, one zero).  NaN and the infinities are values of their   *)
(* own.  x ** y has no closed form here: it is an uninterpreted            *)
(* deterministic function of its arguments (a term), except where IEEE     *)
(* fixes its value (pow(1, y) = 1, NaN operands).                          *)
(***************************************************************************)
EXTENDS Integers, Sequences, FiniteSets, TLC

\* Bits of significand of the modelled floats (53 in the program).
Precision == 12

\* Longest series a data provider returns in the model.
MaxRows == 2

----------------------------------------------------------------------------
\* Floating-point values

RECURSIVE Pow2(_)
Pow2(n) == IF n <= 0 THEN 1 ELSE 2 * Pow2(n - 1)

RECURSIVE Bits(_)
Bits(n) == IF n = 0 THEN 0 ELSE 1 + Bits(n \div 2)

Abs(n) == IF n < 0 THEN -n ELSE n

Sgn(n) == IF n < 0 THEN -1 ELSE IF n = 0 THEN 0 ELSE 1

\* The finite value m * 2^e; normalised: m = 0 /\ e = 0, or
\* 2^(Precision-1) <= |m| < 2^Precision.
Val(m, e) == [k |-> "num", m |-> m, e |-> e, a |-> <<>>]

NaN == [k |-> "nan", m |-> 0, e |-> 0, a |-> <<>>]

Inf(s) == [k |-> "inf", m |-> s, e |-> 0, a |-> <<>>]

\* Python's None.
None == [k |-> "none", m |-> 0, e |-> 0, a |-> <<>>]

\* The value of the operation op on x and y, left uninterpreted.
Term(op, x, y) == [k |-> op, m |-> 0, e |-> 0, a |-> <<x, y>>]

Zero == Val(0, 0)

IsNum(x) == x.k = "num"

IsTerm(x) == x.k \notin {"num", "nan", "inf", "none"}

\* The float nearest to s * (n + d) * 2^e, n >= 0, where d = 0, or 0 < d < 1
\* when sticky (then n has at least Precision + 2 bits); ties go to even.
Round(s, n, e, sticky) ==
  IF n = 0 THEN Zero
  ELSE LET b == Bits(n) IN
       IF b <= Precision
       THEN Val(s * n * Pow2(Precision - b), e - (Precision - b))
       ELSE LET sh == b - Precision
                q == n \div Pow2(sh)
                r == n % Pow2(sh)
                half == Pow2(sh - 1)
                up == r > half \/ (r = half /\ (sticky \/ q % 2 = 1))
                q2 == IF up THEN q + 1 ELSE q
            IN IF q2 = Pow2(Precision)
               THEN Val(s * Pow2(Precision - 1), e + sh + 1)
               ELSE Val(s * q2, e + sh)

\* float(n) of an integer n
F(n) == Round(Sgn(n), Abs(n), 0, FALSE)

One == F(1)

FNeg(x) ==
  CASE x.k = "num" -> Val(-x.m, x.e)
    [] x.k = "inf" -> Inf(-x.m)
    [] x.k = "nan" -> NaN
    [] OTHER -> Term("neg", x, x)

\* x + y
FAdd(x, y) ==
  CASE x.k = "nan" \/ y.k = "nan" -> NaN
    [] IsTerm(x) \/ IsTerm(y) -> Term("add", x, y)
    [] x.k = "inf" /\ y.k = "inf" -> IF x.m = y.m THEN x ELSE NaN
    [] x.k = "inf" -> x
    [] y.k = "inf" -> y
    [] OTHER ->
       IF x.m = 0 THEN y
       ELSE IF y.m = 0 THEN x
       ELSE LET hi == IF x.e >= y.e THEN x ELSE y
                lo == IF x.e >= y.e THEN y ELSE x
                d == hi.e - lo.e
                \* beyond Precision + 2 places lo only breaks ties
                n == IF d >= Precision + 3 THEN 8 * hi.m + Sgn(lo.m)
                     ELSE hi.m * Pow2(d) + lo.m
                e == IF d >= Precision + 3 THEN hi.e - 3 ELSE lo.e
            IN Round(Sgn(n), Abs(n), e, FALSE)

\* x - y
FSub(x, y) == FAdd(x, FNeg(y))

\* x * y
FMul(x, y) ==
  CASE x.k = "nan" \/ y.k = "nan" -> NaN
    [] IsTerm(x) \/ IsTerm(y) -> Term("mul", x, y)
    [] x.k = "inf" /\ y.k = "inf" -> Inf(x.m * y.m)
    [] x.k = "inf" -> IF y.m = 0 THEN NaN ELSE Inf(x.m * Sgn(y.m))
    [] y.k = "inf" -> IF x.m = 0 THEN NaN ELSE Inf(y.m * Sgn(x.m))
    [] OTHER -> Round(Sgn(x.m) * Sgn(y.m), Abs(x.m) * Abs(y.m), x.e + y.e, FALSE)

\* x / y on numpy's float64: a zero divisor gives an infinity or NaN.
FDiv(x, y) ==
  CASE x.k = "nan" \/ y.k = "nan" -> NaN
    [] IsTerm(x) \/ IsTerm(y) -> Term("div", x, y)
    [] x.k = "inf" /\ y.k = "inf" -> NaN
    [] x.k = "inf" -> Inf(x.m * (IF y.m < 0 THEN -1 ELSE 1))
    [] y.k = "inf" -> Zero
    [] OTHER ->
       IF y.m = 0 THEN (IF x.m = 0 THEN NaN ELSE Inf(Sgn(x.m)))
       ELSE LET n == Abs(x.m) * Pow2(Precision + 2)
                q == n \div Abs(y.m)
                r == n % Abs(y.m)
            IN Round(Sgn(x.m) * Sgn(y.m), q, x.e - y.e - (Precision + 2), r # 0)

\* x ** y
FPow(x, y) ==
  CASE x = One -> One
    [] x.k = "nan" \/ y.k = "nan" -> NaN
    [] OTHER -> Term("pow", x, y)

\* x > y on finite values
FGt(x, y) == LET d == FSub(x, y) IN d.k = "num" /\ d.m > 0

----------------------------------------------------------------------------
\* What the data providers may answer

\* A DataFrame, or None.
Frame(rows) == [none |-> FALSE, rows |-> rows]

NoneFrame == [none |-> TRUE, rows |-> <<>>]

\* A provider's answer to one download: it raises, or returns rows.
Raises == [raised |-> TRUE, rows |-> <<>>]

Returns(rows) == [raised |-> FALSE, rows |-> rows]

Responses(paths) ==
  {Raises} \cup {Returns(SubSeq(p, 1, n)) : p \in paths, n \in 0..MaxRows}

\* USD/TRY closes: a rising and a falling rate.
UsdtryPaths ==
  {[i \in 1..MaxRows |-> F(6 + i)], [i \in 1..MaxRows |-> F(20 - i)]}

\* Index closes: rising, unchanged.
EquityPaths ==
  {[i \in 1..MaxRows |-> F(100 * i)], [i \in 1..MaxRows |-> F(100)]}

\* Mutant: the two inflation series fetched in the other order
FredSeries_Swapped ==
  <<"CPIAUCSL", "TURCPIALLMINMEI", "IR3TIB01TRM156N", "FEDFUNDS">>

\* The four FRED series, in the order main() fetches them.
FredSeries == <<"TURCPIALLMINMEI", "CPIAUCSL", "IR3TIB01TRM156N", "FEDFUNDS">>

FredPaths ==
  <<[i \in 1..MaxRows |-> F(100 + 5 * i)],
    [i \in 1..MaxRows |-> F(250 + i)],
    [i \in 1..MaxRows |-> F(10 + 2 * i)],
    [i \in 1..MaxRows |-> F(1 + i)]>>

\* float(input(...)) of the amount typed in
Amounts == {F(1000)}

\* datetime.strptime(...) of the dates typed in, as day numbers
StartDates == {366}

EndDates == {366, 732}

----------------------------------------------------------------------------
\* The functions of main.py

\* Mutant: an empty series instead of None when the download raises
get_fred_data_EmptyOnError(resp) ==
  IF resp.raised
  THEN [data |-> Frame(<<>>), out |-> <<"Data download error">>]
  ELSE [data |-> Frame(resp.rows), out |-> <<>>]

\* get_fred_data: the series, or None with a message when the download raises
get_fred_data(resp) ==
  IF resp.raised
  THEN [data |-> NoneFrame, out |-> <<"Data download error">>]
  ELSE [data |-> Frame(resp.rows), out |-> <<>>]

\* Mutant: 1 - inflation_rate for 1 + inflation_rate
calculate_real_return_SignSlip(nominal_return, inflation_rate) ==
  FSub(FDiv(FAdd(One, nominal_return), FSub(One, inflation_rate)), One)

calculate_real_return(nominal_return, inflation_rate) ==
  FSub(FDiv(FAdd(One, nominal_return), FAdd(One, inflation_rate)), One)

\* Mutant: data.empty alone
insufficient_EmptyOnly(rows) == rows = <<>>

\* data.empty or len(data) < 2
insufficient(rows) == rows = <<>> \/ Len(rows) < 2

\* Mutant: usdtry.empty alone
usdtry_insufficient_EmptyOnly(rows) == rows = <<>>

\* usdtry.empty or len(usdtry) < 2
usdtry_insufficient(rows) == rows = <<>> \/ Len(rows) < 2

\* (end_date - start_date).days / 365.25
years_between(start_date, end_date) ==
  FDiv(F(end_date - start_date), FDiv(F(1461), F(4)))

\* return None, None, None
Failure(msg) ==
  [kind |-> "return", total_return |-> None, real_annual_return |-> None,
   final_value |-> None, out |-> <<msg>>]

\* an exception that calculate_returns does not catch
Uncaught ==
  [kind |-> "raise", total_return |-> None, real_annual_return |-> None,
   final_value |-> None, out |-> <<>>]

\* Mutant: the real return is taken net of the interest rate
calculate_returns_NetOfInterest(ticker, initial_investment, start_date, end_date, inflation_rate, interest_rate, resp) ==
  IF resp.raised THEN Failure("Data download error")
  ELSE IF insufficient(resp.rows) THEN Failure("Insufficient data found")
  ELSE LET initial_price == resp.rows[1]
           final_price == resp.rows[Len(resp.rows)]
           total_return == FDiv(FSub(final_price, initial_price), initial_price)
           years == years_between(start_date, end_date)
       IN \* 1/years: ZeroDivisionError
          IF years = Zero THEN Uncaught
          ELSE LET annual_return ==
                     FSub(FPow(FAdd(One, total_return), FDiv(One, years)), One)
                   real_annual_return ==
                     FSub(calculate_real_return(annual_return, inflation_rate),
                          interest_rate)
                   final_value ==
                     FMul(initial_investment,
                          FPow(FAdd(One, real_annual_return), years))
               IN [kind |-> "return", total_return |-> total_return,
                   real_annual_return |-> real_annual_return,
                   final_value |-> final_value, out |-> <<>>]

\* calculate_returns; resp is what yf.download(ticker, ...) answers
calculate_returns(ticker, initial_investment, start_date, end_date, inflation_rate, interest_rate, resp) ==
  IF resp.raised THEN Failure("Data download error")
  ELSE IF insufficient(resp.rows) THEN Failure("Insufficient data found")
  ELSE LET initial_price == resp.rows[1]
           final_price == resp.rows[Len(resp.rows)]
           total_return == FDiv(FSub(final_price, initial_price), initial_price)
           years == years_between(start_date, end_date)
       IN \* 1/years: ZeroDivisionError
          IF years = Zero THEN Uncaught
          ELSE LET annual_return ==
                     FSub(FPow(FAdd(One, total_return), FDiv(One, years)), One)
                   real_annual_return ==
                     calculate_real_return(annual_return, inflation_rate)
                   final_value ==
                     FMul(initial_investment,
                          FPow(FAdd(One, real_annual_return), years))
               IN [kind |-> "return", total_return |-> total_return,
                   real_annual_return |-> real_annual_return,
                   final_value |-> final_value, out |-> <<>>]

RECURSIVE Sum(_)
Sum(xs) == IF xs = <<>> THEN Zero
           ELSE FAdd(Sum(SubSeq(xs, 1, Len(xs) - 1)), xs[Len(xs)])

\* Series.mean(): NaN are skipped, and the mean of nothing is NaN
Mean(xs) == IF xs = <<>> THEN NaN ELSE FDiv(Sum(xs), F(Len(xs)))

\* Series.pct_change() without its leading NaN
pct_change(rows) ==
  [i \in 1..(IF Len(rows) = 0 THEN 0 ELSE Len(rows) - 1) |->
     FSub(FDiv(rows[i + 1], rows[i]), One)]

\* series.pct_change().mean() * 12
inflation_of(rows) == FMul(Mean(pct_change(rows)), F(12))

\* series.mean() / 100
interest_of(rows) == FDiv(Mean(rows), F(100))

\* initial_investment_tl / initial_usd_rate
to_usd(amount_tl, initial_usd_rate) == FDiv(amount_tl, initial_usd_rate)

\* Mutant: divides by the final rate
to_tl_Divides(amount_usd, final_usd_rate) == FDiv(amount_usd, final_usd_rate)

\* final_usd * final_usd_rate
to_tl(amount_usd, final_usd_rate) == FMul(amount_usd, final_usd_rate)

\* any(data is None for data in [...])
any_none(frames) == \E i \in 1..Len(frames) : frames[i].none

NoResult ==
  [kind |-> "unset", total_return |-> None, real_annual_return |-> None,
   final_value |-> None, out |-> <<>>]

----------------------------------------------------------------------------
\* main()

VARIABLES
  pc,                      \* where main() is
  initial_investment_tl, start_date, end_date,
  usdtry,                  \* what yf.download("USDTRY=X") answered
  initial_usd_rate, final_usd_rate, initial_investment_usd,
  fred_data,               \* what the four FRED downloads answered so far
  fred,                    \* the frames get_fred_data returned so far
  rates,                   \* the four aggregated rates, once computed
  bist_data, sp500_data,   \* what yf.download answered for the two indices
  bist, sp500,             \* what calculate_returns returned
  final_tl,                \* <<bist_final_tl, sp500_final_tl>> once reported
  log,                     \* the downloads made, in order
  out,                     \* what was printed and shown, in order
  call                     \* one call of a function on its own

mainvars ==
  <<pc, initial_investment_tl, start_date, end_date, usdtry, initial_usd_rate,
    final_usd_rate, initial_investment_usd, fred_data, fred, rates, bist_data,
    sp500_data, bist, sp500, final_tl, log, out>>

vars == <<mainvars, call>>

Idle == [fn |-> "none", in |-> <<>>, res |-> <<>>]

InitMain ==
  /\ pc = "input"
  /\ initial_investment_tl = None
  /\ start_date = 0
  /\ end_date = 0
  /\ usdtry = Raises
  /\ initial_usd_rate = None
  /\ final_usd_rate = None
  /\ initial_investment_usd = None
  /\ fred_data = <<>>
  /\ fred = <<>>
  /\ rates = <<>>
  /\ bist_data = Raises
  /\ sp500_data = Raises
  /\ bist = NoResult
  /\ sp500 = NoResult
  /\ final_tl = <<>>
  /\ log = <<>>
  /\ out = <<>>

Init == InitMain /\ call = Idle

\* lines 54-62: the three prompts
ReadInput ==
  /\ pc = "input"
  /\ \E amount \in Amounts, s \in StartDates, e \in EndDates :
       /\ initial_investment_tl' = amount
       /\ start_date' = s
       /\ end_date' = e
  /\ pc' = "usdtry"
  /\ UNCHANGED <<usdtry, initial_usd_rate, final_usd_rate,
                 initial_investment_usd, fred_data, fred, rates, bist_data, sp500_data,
                 bist, sp500, final_tl, log, out, call>>

\* lines 54-62: float() or strptime() raises ValueError
ParseError ==
  /\ pc = "input"
  /\ pc' = "crashed"
  /\ UNCHANGED <<initial_investment_tl, start_date, end_date, usdtry,
                 initial_usd_rate, final_usd_rate, initial_investment_usd,
                 fred_data, fred, rates, bist_data, sp500_data, bist, sp500, final_tl,
                 log, out, call>>

\* lines 64-79
FetchUsdtry ==
  /\ pc = "usdtry"
  /\ \E resp \in Responses(UsdtryPaths) :
       /\ usdtry' = resp
       /\ log' = Append(log, "USDTRY=X")
       /\ IF resp.raised
          THEN /\ out' = Append(out, "USD/TRY data download error")
               /\ pc' = "done"
               /\ UNCHANGED <<initial_usd_rate, final_usd_rate,
                              initial_investment_usd>>
          ELSE IF usdtry_insufficient(resp.rows)
          THEN /\ out' = Append(out, "Insufficient USD/TRY data found")
               /\ pc' = "done"
               /\ UNCHANGED <<initial_usd_rate, final_usd_rate,
                              initial_investment_usd>>
          ELSE /\ initial_usd_rate' = resp.rows[1]
               /\ final_usd_rate' = resp.rows[Len(resp.rows)]
               /\ initial_investment_usd' =
                    to_usd(initial_investment_tl, resp.rows[1])
               /\ pc' = "fred"
               /\ out' = out
  /\ UNCHANGED <<initial_investment_tl, start_date, end_date, fred_data, fred, rates,
                 bist_data, sp500_data, bist, sp500, final_tl, call>>

\* lines 82-85: one get_fred_data call, the next of the four
FetchFred ==
  /\ pc = "fred"
  /\ LET i == Len(fred) + 1 IN
     \E resp \in Responses({FredPaths[i]}) :
       LET got == get_fred_data(resp) IN
       /\ fred_data' = Append(fred_data, resp)
       /\ fred' = Append(fred, got.data)
       /\ log' = Append(log, FredSeries[i])
       /\ out' = out \o got.out
       /\ pc' = IF i = Len(FredSeries) THEN "aggregate" ELSE "fred"
  /\ UNCHANGED <<initial_investment_tl, start_date, end_date, usdtry,
                 initial_usd_rate, final_usd_rate, initial_investment_usd,
                 rates, bist_data, sp500_data, bist, sp500, final_tl, call>>

\* lines 87-95
Aggregate ==
  /\ pc = "aggregate"
  /\ IF any_none(fred)
     THEN /\ out' = Append(out, "Unable to fetch inflation and/or interest rate data")
          /\ pc' = "done"
          /\ rates' = rates
     ELSE /\ rates' = <<inflation_of(fred[1].rows), inflation_of(fred[2].rows),
                        interest_of(fred[3].rows), interest_of(fred[4].rows)>>
          /\ pc' = "bist"
          /\ out' = out
  /\ UNCHANGED <<initial_investment_tl, start_date, end_date, usdtry,
                 initial_usd_rate, final_usd_rate, initial_investment_usd,
                 fred_data, fred, bist_data, sp500_data, bist, sp500, final_tl, log, call>>

\* lines 98-100
EvalBist ==
  /\ pc = "bist"
  /\ \E resp \in Responses(EquityPaths) :
       LET r == calculate_returns("XU100.IS", initial_investment_usd,
                                  start_date, end_date, rates[1], rates[3], resp)
       IN /\ bist_data' = resp
          /\ log' = Append(log, "XU100.IS")
          /\ bist' = r
          /\ out' = out \o r.out
          /\ pc' = IF r.kind = "raise" THEN "crashed" ELSE "sp500"
  /\ UNCHANGED <<initial_investment_tl, start_date, end_date, usdtry,
                 initial_usd_rate, final_usd_rate, initial_investment_usd,
                 fred_data, fred, rates, sp500_data, sp500, final_tl, call>>

\* lines 102-104
EvalSp500 ==
  /\ pc = "sp500"
  /\ \E resp \in Responses(EquityPaths) :
       LET r == calculate_returns("^GSPC", initial_investment_usd,
                                  start_date, end_date, rates[2], rates[4], resp)
       IN /\ sp500_data' = resp
          /\ log' = Append(log, "^GSPC")
          /\ sp500' = r
          /\ out' = out \o r.out
          /\ pc' = IF r.kind = "raise" THEN "crashed" ELSE "report"
  /\ UNCHANGED <<initial_investment_tl, start_date, end_date, usdtry,
                 initial_usd_rate, final_usd_rate, initial_investment_usd,
                 fred_data, fred, rates, bist_data, bist, final_tl, call>>

\* lines 106-133
Present ==
  /\ pc = "report"
  /\ IF bist.total_return # None /\ sp500.total_return # None
     THEN /\ final_tl' = <<to_tl(bist.final_value, final_usd_rate),
                           to_tl(sp500.final_value, final_usd_rate)>>
          /\ out' = out \o <<"BIST 100 Results:", "S&P 500 Results:", "chart">>
     ELSE /\ out' = Append(out, "An error occurred during the calculations.")
          /\ final_tl' = final_tl
  /\ pc' = "done"
  /\ UNCHANGED <<initial_investment_tl, start_date, end_date, usdtry,
                 initial_usd_rate, final_usd_rate, initial_investment_usd,
                 fred_data, fred, rates, bist_data, sp500_data, bist, sp500, log, call>>

Next ==
  \/ ReadInput
  \/ ParseError
  \/ FetchUsdtry
  \/ FetchFred
  \/ Aggregate
  \/ EvalBist
  \/ EvalSp500
  \/ Present

Spec == Init /\ [][Next]_vars

----------------------------------------------------------------------------
\* The functions called on their own, on inputs drawn from bounded sets

\* Numerators of the rates tried: n, n/3 and n/100 for |n| <= GridN
GridN == 4

\* The float next above a positive x
NextUp(x) ==
  IF x.m + 1 = Pow2(Precision) THEN Val(Pow2(Precision - 1), x.e + 1)
  ELSE Val(x.m + 1, x.e)

\* Rates tried, among them -1, rates below it, and the float next above -1
RateGrid ==
  {FDiv(F(n), F(d)) : n \in (-GridN)..GridN, d \in {1, 3, 100}}
    \cup {FNeg(FSub(One, FDiv(One, F(Pow2(Precision)))))}

ConvAmounts == {F(1000), F(31), F(59)}

ConvRates == {F(8), F(29), F(55), NextUp(F(55)), NextUp(NextUp(F(55)))}

CallInvestments == {F(1000), FDiv(F(1000), F(7))}

CallEndDates == {0, 366, 732}

CallInflations == {Zero, FDiv(F(12), F(100)), NaN}

CallInterests == {Zero, FDiv(F(5), F(100)), F(1)}

\* calculate_real_return(nominal_return, inflation_rate)
CallRealReturn ==
  /\ call = Idle
  /\ \E n \in RateGrid, i \in RateGrid :
       call' = [fn |-> "calculate_real_return", in |-> <<n, i>>,
                res |-> <<calculate_real_return(n, i)>>]
  /\ UNCHANGED mainvars

\* lines 79 and 108: into USD at the first rate, back into TRY at the last
CallConvert ==
  /\ call = Idle
  /\ \E amount \in ConvAmounts, r1 \in ConvRates, r2 \in ConvRates :
       call' = [fn |-> "convert", in |-> <<amount, r1, r2>>,
                res |-> <<to_usd(amount, r1), to_tl(to_usd(amount, r1), r2)>>]
  /\ UNCHANGED mainvars

\* calculate_returns twice, on arguments that differ in interest_rate alone
CallReturns ==
  /\ call = Idle
  /\ \E inv \in CallInvestments, s \in StartDates, e \in CallEndDates,
        infl \in CallInflations, i1 \in CallInterests, i2 \in CallInterests,
        resp \in Responses(EquityPaths) :
       call' = [fn |-> "calculate_returns",
                in |-> <<"^GSPC", inv, s, e, infl, i1, i2, resp>>,
                res |-> <<calculate_returns("^GSPC", inv, s, e, infl, i1, resp),
                          calculate_returns("^GSPC", inv, s, e, infl, i2, resp)>>]
  /\ UNCHANGED mainvars

NextFn ==
  \/ CallRealReturn
  \/ CallConvert
  \/ CallReturns

SpecFn == Init /\ [][NextFn]_vars

----------------------------------------------------------------------------
\* Properties

Has(seq, x) == \E i \in 1..Len(seq) : seq[i] = x

Terminated == pc \in {"done", "crashed"}

\* A result line or the chart was presented.
Reported ==
  \/ Has(out, "BIST 100 Results:")
  \/ Has(out, "S&P 500 Results:")
  \/ Has(out, "chart")
  \/ final_tl # <<>>

\* A provider's answer that leaves nothing to compute a return from
Short(resp) == resp.raised \/ Len(resp.rows) < 2

\* x * y = z without rounding
ExactMul(x, y, z) ==
  /\ IsNum(x) /\ IsNum(y) /\ IsNum(z)
  /\ LET j == z.e - x.e - y.e IN j >= 0 /\ x.m * y.m = z.m * Pow2(j)

\* C9: calculate_real_return(r, r) = 0 for every finite r > -1.
C9_EqualRatesCancel ==
  (call.fn = "calculate_real_return" /\ call.in[1] = call.in[2]
     /\ FGt(call.in[1], F(-1)))
    => call.res[1] = Zero

\* C9 witness: the float next above -1, where 1 + r is the smallest sum.
C9_Witness ==
  /\ call.fn = "calculate_real_return"
  /\ call.in[1] = call.in[2]
  /\ FGt(call.in[1], F(-1))
  /\ FGt(FDiv(F(-99), F(100)), call.in[1])
  /\ call.res[1] = Zero

\* C8 as stated: into USD and back at the same rate gives the amount back
\* exactly, and at a different rate never does.
C8_RoundTripExact ==
  call.fn = "convert" =>
    /\ call.in[2] = call.in[3] => call.res[2] = call.in[1]
    /\ call.in[2] # call.in[3] => call.res[2] # call.in[1]

\* C8 amended: it is so when amount / initialRate is computed without
\* rounding.
C8_RoundTripWhenQuotientExact ==
  (call.fn = "convert" /\ ExactMul(call.res[1], call.in[2], call.in[1])) =>
    /\ call.in[2] = call.in[3] => call.res[2] = call.in[1]
    /\ call.in[2] # call.in[3] => call.res[2] # call.in[1]

\* C8 witness: 1000 / 8 is exact, and the last rate is the float next to 55.
C8_Witness ==
  /\ call.fn = "convert"
  /\ call.in = <<F(1000), F(8), NextUp(F(55))>>
  /\ ExactMul(call.res[1], call.in[2], call.in[1])
  /\ call.res[2] # call.in[1]

\* C7: calculate_returns returns the same whatever interest_rate is.
C7_InterestRateUnused ==
  call.fn = "calculate_returns" => call.res[1] = call.res[2]

\* C7 witness: two interest rates, and a triple of numbers returned.
C7_Witness ==
  /\ call.fn = "calculate_returns"
  /\ call.in[6] # call.in[7]
  /\ call.res[1].kind = "return"
  /\ IsNum(call.res[1].total_return)
  /\ call.res[1].real_annual_return \notin {None, NaN}
  /\ call.res[1] = call.res[2]

\* C4 as stated: the failure signal when the series has fewer than 2 points
\* (or there is none) or the duration is not positive, the triple otherwise.
C4_FailureSignal ==
  call.fn = "calculate_returns" =>
    LET r == call.res[1]
        bad == Short(call.in[8]) \/ call.in[4] - call.in[3] <= 0
    IN /\ r.kind = "return"
       /\ bad <=> r.total_return = None
       /\ bad <=> r.real_annual_return = None
       /\ bad <=> r.final_value = None

IsPrefix(s, t) == Len(s) <= Len(t) /\ s = SubSeq(t, 1, Len(s))

\* The downloads of a full run, in order
FetchOrder ==
  <<"USDTRY=X", "TURCPIALLMINMEI", "CPIAUCSL", "IR3TIB01TRM156N", "FEDFUNDS",
    "XU100.IS", "^GSPC">>

\* C1: once the USD/TRY download has raised or returned fewer than 2 rows,
\* the run is over and no FRED or index download is ever made.
C1_FailFast ==
  (Has(log, "USDTRY=X") /\ Short(usdtry)) =>
    /\ log = <<"USDTRY=X">>
    /\ pc = "done"
    /\ fred = <<>>

\* C1 witness: a single USD/TRY row ended the run.
C1_Witness ==
  /\ pc = "done"
  /\ ~usdtry.raised
  /\ Len(usdtry.rows) = 1
  /\ log = <<"USDTRY=X">>
  /\ out = <<"Insufficient USD/TRY data found">>

\* C2: a result line or the chart is presented only when both index
\* downloads gave at least 2 rows and both calculate_returns calls returned
\* numbers.
C2_NoPartialReport ==
  Reported =>
    /\ ~Short(bist_data) /\ ~Short(sp500_data)
    /\ bist.kind = "return" /\ bist.total_return # None
    /\ sp500.kind = "return" /\ sp500.total_return # None

\* C2 witness: BIST 100 was evaluated, S&P 500 failed, nothing was presented.
C2_Witness ==
  /\ pc = "done"
  /\ ~Short(bist_data) /\ bist.total_return # None
  /\ ~sp500_data.raised /\ Len(sp500_data.rows) = 1
  /\ sp500.total_return = None
  /\ ~Reported
  /\ Has(out, "An error occurred during the calculations.")

\* C3: once a FRED download has raised, no rate is aggregated, no index is
\* evaluated and nothing is presented.
C3_AllSeriesRequired ==
  (\E i \in 1..Len(fred_data) : fred_data[i].raised) =>
    /\ rates = <<>>
    /\ bist = NoResult /\ sp500 = NoResult
    /\ ~Has(log, "XU100.IS") /\ ~Has(log, "^GSPC")
    /\ ~Reported
    /\ pc \in {"fred", "aggregate", "done"}

\* C3 witness: the last of the four series alone was unavailable.
C3_Witness ==
  /\ pc = "done"
  /\ Len(fred_data) = 4
  /\ fred_data[4].raised
  /\ \A i \in 1..3 : ~Short(fred_data[i])
  /\ out[Len(out)] = "Unable to fetch inflation and/or interest rate data"

\* C5 as stated: once a FRED download has returned fewer than 2 rows, no
\* rate is aggregated, no index is evaluated and nothing is presented.
C5_ShortSeriesAborts ==
  (\E i \in 1..Len(fred_data) :
      ~fred_data[i].raised /\ Len(fred_data[i].rows) < 2) =>
    /\ rates = <<>>
    /\ bist = NoResult /\ sp500 = NoResult
    /\ ~Reported

\* C6 as stated, of the runs that got past the prompts: a run that ends
\* without the report has ended in main()'s own return with a message
\* printed, and a run in which a download raised or gave fewer than 2 rows
\* ends so.
C6_FailuresSurfaced ==
  LET failed ==
        \/ Has(log, "USDTRY=X") /\ Short(usdtry)
        \/ \E i \in 1..Len(fred_data) : Short(fred_data[i])
        \/ Has(log, "XU100.IS") /\ Short(bist_data)
        \/ Has(log, "^GSPC") /\ Short(sp500_data)
  IN /\ (Terminated /\ log # <<>> /\ ~Reported) => (pc = "done" /\ out # <<>>)
     /\ (Terminated /\ failed) => (pc = "done" /\ ~Reported /\ out # <<>>)

====
